---- MODULE Spec2Model ----
(***************************************************************************)
(* Model of the PAYLOT backend (src/main.py): the lead store, the          *)
(* create_lead handler and the dashboard_summary aggregator, whose five    *)
(* store queries are separate steps that interleave with lead insertions,  *)
(* the passage of time and loss of connectivity.                           *)
(*                                                                         *)
(* Units: volumes are integers in thousandths of a lot (100.0 lots is      *)
(* 100000), conversion_rate is an integer in hundredths of a percent       *)
(* (66.67 % is 6667).  A timestamp is its UTC [year, month]: every         *)
(* comparison and bucketing in the code is at month granularity, because   *)
(* start_dt is the first instant of a month.  The lead fields name, email, *)
(* message and consent are never read by the aggregator and are left out.  *)
(* A response carries the path of the request it answers; resp is the      *)
(* latest response of the application.                                     *)
(* The "lead" collection is a multiset of documents (a bag): no query of   *)
(* the aggregator depends on an order of the documents.                    *)
(***************************************************************************)
EXTENDS Integers, Sequences, FiniteSets, Bags, TLC

VARIABLES dbConfigured, reachable, leads, clock, ticks,
          pc, total_leads, total_volume, active_brokers, with_volume, now,
          resp, wrote, prev, prevNow

vars == <<dbConfigured, reachable, leads, clock, ticks,
          pc, total_leads, total_volume, active_brokers, with_volume, now,
          resp, wrote, prev, prevNow>>

locals == <<total_leads, total_volume, active_brokers, with_volume>>

----------------------------------------------------------------------------
\* Bounds of the model

MaxLeads == 3

MaxTicks == 1

----------------------------------------------------------------------------
\* Values

\* Python None / BSON null for the optional broker field
Null == "<null>"

\* Python None / BSON null for the optional expected_monthly_volume field
\* (real volumes are >= 0, schemas.py ge=0)
NullVol == -1

\* Lead forms submitted to POST /api/leads
LeadInputs ==
    { [broker |-> "A",  expected_monthly_volume |-> 100000],
      [broker |-> "",   expected_monthly_volume |-> NullVol],
      [broker |-> Null, expected_monthly_volume |-> 0],
      [broker |-> "B",  expected_monthly_volume |-> 1236] }

\* Months the clock can show when the process starts
StartClocks == { [year |-> 2023, month |-> 12], [year |-> 2024, month |-> 1] }

\* Months that pass between two observed events
TickSteps == {1, 11, 12}

\* no response yet
NoResp == [path |-> "", status |-> 0]

\* the clock has not been read
NoNow == [year |-> 0, month |-> 0]

----------------------------------------------------------------------------
\* Pure helpers

\* {"$ifNull": [v, 0]}
IfNull(v) == IF v = NullVol THEN 0 ELSE v

\* the documents of a collection that a filter selected
Find(docs, selected) == [ d \in selected |-> docs[d] ]

RECURSIVE SumVolume(_)
\* {"$sum": {"$ifNull": ["$expected_monthly_volume", 0]}} over documents
SumVolume(docs) ==
    IF DOMAIN docs = {} THEN 0
    ELSE LET d == CHOOSE x \in DOMAIN docs : TRUE
         IN  IfNull(d.expected_monthly_volume) * docs[d]
               + SumVolume([ x \in DOMAIN docs \ {d} |-> docs[x] ])

\* nearest integer to n/d, ties to the even neighbour (Python round())
RoundHalfEven(n, d) ==
    LET q == n \div d
        r == n % d
    IN  IF 2 * r < d THEN q
        ELSE IF 2 * r > d THEN q + 1
        ELSE IF q % 2 = 0 THEN q ELSE q + 1

\* round(total_volume, 2): thousandths rounded to a multiple of 10
RoundVolume(v) == RoundHalfEven(v, 10) * 10

\* round(with_volume / total_leads * 100.0, 2) in hundredths of a percent,
\* 0.0 when total_leads is falsy
ConversionRate(wv, tl) == IF tl # 0 THEN RoundHalfEven(wv * 10000, tl) ELSE 0

Digit(n) == <<"0", "1", "2", "3", "4", "5", "6", "7", "8", "9">>[n + 1]

\* f"{y:04d}-{m:02d}"
PyKey(y, m) ==
    << Digit((y \div 1000) % 10), Digit((y \div 100) % 10),
       Digit((y \div 10) % 10), Digit(y % 10), "-",
       Digit((m \div 10) % 10), Digit(m % 10) >>

\* mutant: the month is not zero-padded ("%Y-%-m")
DateToString_Unpadded(dt) ==
    << Digit((dt.year \div 1000) % 10), Digit((dt.year \div 100) % 10),
       Digit((dt.year \div 10) % 10), Digit(dt.year % 10), "-" >>
    \o (IF dt.month >= 10 THEN << Digit(dt.month \div 10), Digit(dt.month % 10) >>
        ELSE << Digit(dt.month) >>)

\* {"$dateToString": {"format": "%Y-%m", "date": "$created_at"}} (UTC)
DateToString(dt) ==
    << Digit((dt.year \div 1000) % 10), Digit((dt.year \div 100) % 10),
       Digit((dt.year \div 10) % 10), Digit(dt.year % 10), "-",
       Digit((dt.month \div 10) % 10), Digit(dt.month % 10) >>

\* datetime >= datetime
DtGe(a, b) == a.year > b.year \/ (a.year = b.year /\ a.month >= b.month)

\* mutant: the year is rolled back in December too
StartDt_AlwaysPrevYear(n) ==
    [year |-> n.year - 1, month |-> (n.month % 12) + 1]

\* datetime(now.year - 1 if now.month != 12 else now.year, (now.month % 12) + 1, 1)
StartDt(n) ==
    [year  |-> IF n.month # 12 THEN n.year - 1 ELSE n.year,
     month |-> (n.month % 12) + 1]

RECURSIVE Rollback_KeepsYear(_, _)
\* mutant: the loop adds 12 months without taking a year off
Rollback_KeepsYear(y, m) ==
    IF m <= 0 THEN Rollback_KeepsYear(y, m + 12) ELSE <<y, m>>

RECURSIVE Rollback(_, _)
\* while m <= 0: y -= 1; m += 12
Rollback(y, m) == IF m <= 0 THEN Rollback(y - 1, m + 12) ELSE <<y, m>>

\* the clock advanced by d whole months
AddMonths(c, d) ==
    LET k == c.year * 12 + (c.month - 1) + d
    IN  [year |-> k \div 12, month |-> (k % 12) + 1]

----------------------------------------------------------------------------
\* Store queries

\* db["lead"].count_documents({})
CountAll(docs) == BagCardinality(docs)

\* list(aggregate([{"$group": {"_id": None, "sum": ...}}])): one row, none on
\* an empty collection
AggVolume(docs) ==
    IF DOMAIN docs = {} THEN <<>> ELSE <<[sum |-> SumVolume(docs)]>>

\* float(agg_volume[0]["sum"]) if agg_volume else 0.0
TotalVolume(docs) ==
    LET agg_volume == AggVolume(docs)
    IN  IF agg_volume # <<>> THEN agg_volume[1].sum ELSE 0

\* distinct("broker", {"broker": {"$ne": None, "$ne": ""}}): the dict literal
\* keeps only the last "$ne", so the filter is broker != ""; a null broker
\* passes it and is returned as None
DistinctBrokers(docs) ==
    { d.broker : d \in DOMAIN Find(docs, { x \in DOMAIN docs : x.broker # "" }) }

\* mutant: the falsy values are not filtered out of the distinct list
ActiveBrokers_Unfiltered(docs) == Cardinality(DistinctBrokers(docs))

\* len([b for b in brokers if b])
ActiveBrokers(docs) ==
    Cardinality({ b \in DistinctBrokers(docs) : b # Null /\ b # "" })

\* mutant: "$gte" in place of "$gt"
CountWithVolume_Gte(docs) ==
    BagCardinality(Find(docs, { x \in DOMAIN docs :
                      /\ x.expected_monthly_volume # NullVol
                      /\ x.expected_monthly_volume >= 0 }))

\* count_documents({"expected_monthly_volume": {"$gt": 0}})
CountWithVolume(docs) ==
    BagCardinality(Find(docs, { x \in DOMAIN docs :
                      /\ x.expected_monthly_volume # NullVol
                      /\ x.expected_monthly_volume > 0 }))

\* {"$match": {"created_at": {"$gte": start_dt}}}
Matched(docs, start_dt) ==
    Find(docs, { x \in DOMAIN docs : DtGe(x.created_at, start_dt) })

\* monthly = {d["_id"]: float(d["volume"]) for d in aggregate(pipeline)}:
\* $project ym, $group by ym with the $ifNull sum
Monthly(docs, start_dt) ==
    LET m == Matched(docs, start_dt)
        keys == { DateToString(d.created_at) : d \in DOMAIN m }
    IN  [ k \in keys |->
            SumVolume(Find(m, { x \in DOMAIN m : DateToString(x.created_at) = k })) ]

\* mutant: monthly.get(key) without the 0.0 default
Series_NoDefault(n, monthly) ==
    [ j \in 1..12 |->
        LET ym  == Rollback(n.year, n.month - (12 - j))
            key == PyKey(ym[1], ym[2])
        IN  [month  |-> key,
             volume |-> IF key \in DOMAIN monthly THEN monthly[key] ELSE NullVol] ]

\* the loop for i in range(11, -1, -1) building the 12 entries
Series(n, monthly) ==
    [ j \in 1..12 |->
        LET ym  == Rollback(n.year, n.month - (12 - j))
            key == PyKey(ym[1], ym[2])
        IN  [month  |-> key,
             volume |-> IF key \in DOMAIN monthly THEN monthly[key] ELSE 0] ]

\* the dict returned when db is None
DefaultSummary ==
    [path   |-> "/api/dashboard",
     status |-> 200,
     totals |-> [total_leads |-> 0, total_volume |-> 0,
                 conversion_rate |-> 0, active_brokers |-> 0],
     series |-> <<>>,
     note   |-> "Database not configured. Set DATABASE_URL and DATABASE_NAME to enable metrics."]

\* the dict returned at the end of the try block
Summary(tl, tv, ab, wv, n, docs) ==
    [path   |-> "/api/dashboard",
     status |-> 200,
     totals |-> [total_leads     |-> tl,
                 total_volume    |-> RoundVolume(tv),
                 conversion_rate |-> ConversionRate(wv, tl),
                 active_brokers  |-> ab],
     series |-> Series(n, Monthly(docs, StartDt(n)))]

\* dashboard_summary: raise HTTPException(status_code=500, detail=str(e))
Failure == [path |-> "/api/dashboard", status |-> 500, detail |-> "error"]

----------------------------------------------------------------------------
\* State machine

Init ==
    /\ dbConfigured \in BOOLEAN
    /\ reachable = dbConfigured
    /\ leads = EmptyBag
    /\ clock \in StartClocks
    /\ ticks = 0
    /\ pc = "idle"
    /\ total_leads = 0
    /\ total_volume = 0
    /\ active_brokers = 0
    /\ with_volume = 0
    /\ now = NoNow
    /\ resp = NoResp
    /\ wrote = FALSE
    /\ prev = NoResp
    /\ prevNow = NoNow

\* time passes
Tick ==
    /\ ticks < MaxTicks
    /\ \E d \in TickSteps : clock' = AddMonths(clock, d)
    /\ ticks' = ticks + 1
    /\ UNCHANGED <<dbConfigured, reachable, leads, pc, locals, now, resp,
                   wrote, prev, prevNow>>

\* the configured store stops answering
Disconnect ==
    /\ dbConfigured /\ reachable
    /\ reachable' = FALSE
    /\ UNCHANGED <<dbConfigured, leads, clock, ticks, pc, locals, now, resp,
                   wrote, prev, prevNow>>

\* the configured store answers again
Reconnect ==
    /\ dbConfigured /\ ~reachable
    /\ reachable' = TRUE
    /\ UNCHANGED <<dbConfigured, leads, clock, ticks, pc, locals, now, resp,
                   wrote, prev, prevNow>>

\* create_document("lead", lead): stores the form with a server-assigned
\* created_at; raises when the store is absent or does not answer
create_document(inp) ==
    leads (+) SetToBag({[broker |-> inp.broker,
                         expected_monthly_volume |-> inp.expected_monthly_volume,
                         created_at |-> clock]})

\* the dict returned by create_lead
Created == [path |-> "/api/leads", status |-> 200, body |-> "success"]

\* create_lead: raise HTTPException(status_code=500, detail=str(e))
LeadFailure == [path |-> "/api/leads", status |-> 500, detail |-> "error"]

\* POST /api/leads: the document is inserted and success returned, or the
\* exception of create_document becomes HTTP 500
create_lead ==
    /\ \E inp \in LeadInputs :
          IF dbConfigured /\ reachable
          THEN /\ BagCardinality(leads) < MaxLeads
               /\ leads' = create_document(inp)
               /\ resp' = Created
               /\ wrote' = TRUE
               /\ prev' = NoResp
               /\ prevNow' = NoNow
          ELSE /\ resp' = LeadFailure
               /\ UNCHANGED <<leads, wrote, prev, prevNow>>
    /\ UNCHANGED <<dbConfigured, reachable, clock, ticks, pc, locals, now>>

\* a response of GET /api/dashboard that carries a summary
IsSummary(r) == "totals" \in DOMAIN r

\* the locals of dashboard_summary do not outlive the call
ResetLocals ==
    /\ total_leads' = 0 /\ total_volume' = 0
    /\ active_brokers' = 0 /\ with_volume' = 0

\* GET /api/dashboard is entered: if db is None the defaults are returned
DashBegin ==
    /\ pc = "idle"
    /\ prev' = IF IsSummary(resp) /\ ~wrote THEN resp ELSE NoResp
    /\ prevNow' = IF IsSummary(resp) /\ ~wrote THEN now ELSE NoNow
    /\ wrote' = FALSE
    /\ ResetLocals
    /\ now' = NoNow
    /\ IF ~dbConfigured
       THEN resp' = DefaultSummary /\ pc' = "idle"
       ELSE resp' = NoResp /\ pc' = "count"
    /\ UNCHANGED <<dbConfigured, reachable, leads, clock, ticks>>

\* mutant: the exception is swallowed and the values gathered so far returned
Fail_Partial ==
    /\ resp' = Summary(total_leads, total_volume, active_brokers, with_volume,
                       clock, EmptyBag)
    /\ pc' = "idle"
    /\ ResetLocals
    /\ UNCHANGED now

\* except Exception: the query raised, the call ends with HTTP 500
Fail ==
    /\ resp' = Failure
    /\ pc' = "idle"
    /\ ResetLocals
    /\ UNCHANGED now

\* total_leads = db["lead"].count_documents({})
DashCount ==
    /\ pc = "count"
    /\ IF reachable
       THEN /\ total_leads' = CountAll(leads)
            /\ pc' = "sum"
            /\ UNCHANGED <<total_volume, active_brokers, with_volume, now, resp>>
       ELSE Fail
    /\ UNCHANGED <<dbConfigured, reachable, leads, clock, ticks,
                   wrote, prev, prevNow>>

\* total_volume from the $group aggregate
DashSum ==
    /\ pc = "sum"
    /\ IF reachable
       THEN /\ total_volume' = TotalVolume(leads)
            /\ pc' = "brokers"
            /\ UNCHANGED <<total_leads, active_brokers, with_volume, now, resp>>
       ELSE Fail
    /\ UNCHANGED <<dbConfigured, reachable, leads, clock, ticks,
                   wrote, prev, prevNow>>

\* active_brokers from the distinct query
DashBrokers ==
    /\ pc = "brokers"
    /\ IF reachable
       THEN /\ active_brokers' = ActiveBrokers(leads)
            /\ pc' = "with_volume"
            /\ UNCHANGED <<total_leads, total_volume, with_volume, now, resp>>
       ELSE Fail
    /\ UNCHANGED <<dbConfigured, reachable, leads, clock, ticks,
                   wrote, prev, prevNow>>

\* with_volume = count_documents({"expected_monthly_volume": {"$gt": 0}})
DashWithVolume ==
    /\ pc = "with_volume"
    /\ IF reachable
       THEN /\ with_volume' = CountWithVolume(leads)
            /\ pc' = "series"
            /\ UNCHANGED <<total_leads, total_volume, active_brokers, now, resp>>
       ELSE Fail
    /\ UNCHANGED <<dbConfigured, reachable, leads, clock, ticks,
                   wrote, prev, prevNow>>

\* mutant: the pipeline ends in a stage that writes its result into the
\* collection it reads
DashSeries_WritesBack ==
    /\ pc = "series"
    /\ IF reachable
       THEN /\ now' = clock
            /\ resp' = Summary(total_leads, total_volume, active_brokers,
                               with_volume, clock, leads)
            /\ leads' = leads (+) SetToBag({[broker |-> Null,
                                             expected_monthly_volume |-> total_volume,
                                             created_at |-> clock]})
            /\ pc' = "idle"
            /\ ResetLocals
       ELSE Fail /\ UNCHANGED leads
    /\ UNCHANGED <<dbConfigured, reachable, clock, ticks, wrote, prev, prevNow>>

\* now = datetime.utcnow(), the monthly pipeline, the series loop and the
\* return of the summary
DashSeries ==
    /\ pc = "series"
    /\ IF reachable
       THEN /\ now' = clock
            /\ resp' = Summary(total_leads, total_volume, active_brokers,
                               with_volume, clock, leads)
            /\ pc' = "idle"
            /\ ResetLocals
       ELSE Fail
    /\ UNCHANGED <<dbConfigured, reachable, leads, clock, ticks,
                   wrote, prev, prevNow>>

dashboard_summary ==
    \/ DashBegin
    \/ DashCount
    \/ DashSum
    \/ DashBrokers
    \/ DashWithVolume
    \/ DashSeries

Next ==
    \/ Tick
    \/ Disconnect
    \/ Reconnect
    \/ create_lead
    \/ dashboard_summary

Spec == Init /\ [][Next]_vars

\* The same program when no lead is written while a dashboard call is in
\* progress
NextSerial ==
    \/ Tick
    \/ Disconnect
    \/ Reconnect
    \/ (pc = "idle" /\ create_lead)
    \/ dashboard_summary

SpecSerial == Init /\ [][NextSerial]_vars

----------------------------------------------------------------------------
\* Reference definitions used by the properties

\* a summary returned by a call during which no lead was written; a later
\* write replaces resp, so the store is the one the call read
Fresh == IsSummary(resp) /\ dbConfigured /\ ~wrote

DigitChars == {"0", "1", "2", "3", "4", "5", "6", "7", "8", "9"}

\* the value of a decimal digit character
DigitVal(c) ==
    CASE c = "0" -> 0 [] c = "1" -> 1 [] c = "2" -> 2 [] c = "3" -> 3
      [] c = "4" -> 4 [] c = "5" -> 5 [] c = "6" -> 6 [] c = "7" -> 7
      [] c = "8" -> 8 [] c = "9" -> 9

\* a key is four digits, a dash and a two-digit month in 01..12
WellFormedKey(k) ==
    /\ Len(k) = 7
    /\ k[5] = "-"
    /\ \A i \in {1, 2, 3, 4, 6, 7} : k[i] \in DigitChars
    /\ DigitVal(k[6]) * 10 + DigitVal(k[7]) \in 1..12

KeyYear(k) ==
    DigitVal(k[1]) * 1000 + DigitVal(k[2]) * 100 + DigitVal(k[3]) * 10 + DigitVal(k[4])

KeyMonth(k) == DigitVal(k[6]) * 10 + DigitVal(k[7])

\* months since year 0
MonthIndex(y, m) == y * 12 + (m - 1)

KeyIndex(k) == MonthIndex(KeyYear(k), KeyMonth(k))

DtIndex(dt) == MonthIndex(dt.year, dt.month)

\* the leads created in the calendar month with the given index
LeadsOfMonth(idx) == Find(leads, { x \in DOMAIN leads : DtIndex(x.created_at) = idx })

\* the number of leads that state a positive volume
PositiveLeads ==
    BagCardinality(Find(leads, { x \in DOMAIN leads : x.expected_monthly_volume >= 1 }))

\* r is n/d rounded to the nearest integer
Nearest(r, n, d) == 2 * (r * d - n) <= d /\ 2 * (n - r * d) <= d

SeriesShape(r) ==
    /\ Len(r.series) = 12
    /\ \A j \in 1..12 : WellFormedKey(r.series[j].month)
    /\ LET idx == [ j \in 1..12 |-> KeyIndex(r.series[j].month) ]
       IN  \A j \in 1..11 : idx[j + 1] = idx[j] + 1
    /\ KeyYear(r.series[12].month) = now.year
    /\ KeyMonth(r.series[12].month) = now.month

----------------------------------------------------------------------------
\* Properties

\* C1 as stated: every summary returned by dashboard_summary has a series of
\* exactly 12 entries with consecutive, strictly increasing YYYY-MM keys that
\* ends at the current UTC month.
C1_EverySummaryHas12Months == IsSummary(resp) => SeriesShape(resp)

\* C1 amended: every summary returned while the store is configured (db is
\* not None) has a series of exactly 12 entries with consecutive, strictly
\* increasing YYYY-MM keys (year rollover included) that ends at the current
\* UTC month.
C1_ConfiguredSummaryHas12Months ==
    (IsSummary(resp) /\ dbConfigured) => SeriesShape(resp)

\* a summary computed in January, whose series crosses the year boundary
C1_Witness == IsSummary(resp) /\ dbConfigured /\ now.month = 1 /\ leads # EmptyBag

\* C2: in every summary conversion_rate lies in [0, 100] and is 0 whenever
\* the reported total_leads is 0, for every interleaving of create_lead with
\* the aggregator's queries.
C2_ConversionRateInRange ==
    IsSummary(resp) =>
        /\ resp.totals.conversion_rate >= 0
        /\ resp.totals.conversion_rate <= 10000
        /\ (resp.totals.total_leads = 0 => resp.totals.conversion_rate = 0)

\* C3: a dashboard call that meets an unavailable store (not configured, or
\* configured but unreachable at its first access) does not raise and
\* returns exactly the zero summary with series = [] and a note; the note is
\* present only in that case.
C3_UnavailableGivesDefaults ==
    [][ /\ ((DashBegin \/ DashCount) /\ pc' = "idle"
              /\ (~dbConfigured \/ ~reachable)
            => resp' = DefaultSummary)
        /\ (IsSummary(resp') /\ "note" \in DOMAIN resp'
            => (~dbConfigured \/ ~reachable)) ]_vars

\* C4: when the store is present and a query of the aggregator fails, the
\* call ends at that query with a single HTTP 500 that carries neither
\* totals nor series.
C4_FailureIsAllOrNothing ==
    [][ (dashboard_summary /\ pc # "idle" /\ dbConfigured /\ ~reachable)
        => /\ pc' = "idle"
           /\ resp'.path = "/api/dashboard"
           /\ resp'.status = 500
           /\ "totals" \notin DOMAIN resp'
           /\ "series" \notin DOMAIN resp' ]_vars

\* a dashboard call on a non-empty configured store ended with HTTP 500
C4_Witness ==
    /\ dbConfigured /\ leads # EmptyBag /\ pc = "idle"
    /\ resp.path = "/api/dashboard" /\ resp.status = 500

\* C5: active_brokers is the number of distinct broker values that are
\* neither null nor the empty string.
C5_ActiveBrokersDistinctNonEmpty ==
    Fresh =>
        resp.totals.active_brokers =
            Cardinality({ d.broker : d \in DOMAIN leads } \ {Null, ""})

\* one broker named by two leads next to a lead without a broker
C5_Witness ==
    /\ Fresh
    /\ resp.totals.active_brokers = 1
    /\ \E d \in DOMAIN leads : d.broker = "A" /\ leads[d] >= 2
    /\ \E d \in DOMAIN leads : d.broker \in {Null, ""}

\* C6: with no writes during the call, each of the 12 entries reports the sum
\* of expected_monthly_volume (null as 0) over exactly the leads created in
\* that entry's UTC calendar month, and 0 when there is no such lead.
C6_SeriesVolumeIsMonthSum ==
    Fresh =>
        \A j \in 1..Len(resp.series) :
            LET m == LeadsOfMonth(KeyIndex(resp.series[j].month))
            IN  /\ resp.series[j].volume = SumVolume(m)
                /\ (m = EmptyBag => resp.series[j].volume = 0)

\* volume reported both in the current month and in an older month
C6_Witness ==
    /\ Fresh
    /\ resp.series[12].volume > 0
    /\ \E j \in 1..11 : resp.series[j].volume > 0

\* C7: the lower bound of the time filter is the first instant of the month
\* 11 months before the current month, which is the month of the first
\* series entry; a lead created before it is in no series entry but is counted
\* in total_leads and total_volume, and no lead of the 12 months is dropped.
C7_FilterBoundIsFirstSeriesMonth ==
    /\ DtIndex(StartDt(clock)) = DtIndex(clock) - 11
    /\ StartDt(clock).month \in 1..12
    /\ Fresh =>
        /\ DtIndex(StartDt(now)) = KeyIndex(resp.series[1].month)
        /\ LET months  == { KeyIndex(resp.series[j].month) : j \in 1..12 }
               matched == DOMAIN Matched(leads, StartDt(now))
           IN  \A d \in DOMAIN leads :
                 /\ d \in matched <=> DtIndex(d.created_at) >= DtIndex(now) - 11
                 /\ DtIndex(d.created_at) < DtIndex(now) - 11
                       => DtIndex(d.created_at) \notin months
        /\ resp.totals.total_leads = BagCardinality(leads)
        /\ Nearest(resp.totals.total_volume \div 10, SumVolume(leads), 10)
        /\ SumVolume(Matched(leads, StartDt(now)))
              = resp.series[1].volume + resp.series[2].volume
                + resp.series[3].volume + resp.series[4].volume
                + resp.series[5].volume + resp.series[6].volume
                + resp.series[7].volume + resp.series[8].volume
                + resp.series[9].volume + resp.series[10].volume
                + resp.series[11].volume + resp.series[12].volume

\* in December or January, a lead with volume older than the bound and a lead
\* inside the window
C7_Witness ==
    /\ Fresh
    /\ now.month \in {12, 1}
    /\ \E d \in DOMAIN leads :
          /\ DtIndex(d.created_at) < DtIndex(now) - 11
          /\ d.expected_monthly_volume > 0
    /\ \E d \in DOMAIN leads : DtIndex(d.created_at) >= DtIndex(now) - 11

\* C8: with no writes during the call, total_leads is the number of leads,
\* total_volume the sum of the volumes (null as 0) rounded to 2 decimals and
\* conversion_rate 100 times the share of leads with a volume > 0 rounded to 2
\* decimals, 0 when there are no leads.
C8_TotalsMatchReference ==
    Fresh =>
        /\ resp.totals.total_leads = BagCardinality(leads)
        /\ resp.totals.total_volume % 10 = 0
        /\ Nearest(resp.totals.total_volume \div 10, SumVolume(leads), 10)
        /\ IF BagCardinality(leads) = 0
           THEN resp.totals.conversion_rate = 0
           ELSE Nearest(resp.totals.conversion_rate, PositiveLeads * 10000,
                        BagCardinality(leads))

\* three leads, two of them with a volume: 66.67 %
C8_Witness ==
    /\ Fresh
    /\ resp.totals.total_leads = 3
    /\ resp.totals.conversion_rate = 6667
    /\ \E d \in DOMAIN leads : d.expected_monthly_volume = NullVol

\* C9: for an available store without leads the totals are all zero and the
\* series has exactly 12 entries, each with volume 0.
C9_EmptyStoreIsAllZero ==
    (IsSummary(resp) /\ dbConfigured /\ leads = EmptyBag) =>
        /\ resp.totals = [total_leads |-> 0, total_volume |-> 0,
                          conversion_rate |-> 0, active_brokers |-> 0]
        /\ Len(resp.series) = 12
        /\ \A j \in 1..12 : resp.series[j].volume = 0

\* a summary computed from the empty configured store
C9_Witness == IsSummary(resp) /\ dbConfigured /\ leads = EmptyBag

\* C10 as stated: two calls with no lead written between or during them
\* return identical output.
C10_TwoCallsIdentical ==
    (IsSummary(resp) /\ IsSummary(prev) /\ ~wrote) => resp = prev

\* C10 amended: two calls with no lead written between or during them that
\* read the same current UTC month return identical output, and no step of a
\* call changes the store.
C10_TwoCallsIdenticalSameMonth ==
    /\ []((IsSummary(resp) /\ IsSummary(prev) /\ ~wrote /\ prevNow = now)
            => resp = prev)
    /\ [][dashboard_summary => leads' = leads]_vars

\* two consecutive summaries of a non-empty store read in the same month
C10_Witness ==
    /\ IsSummary(resp) /\ IsSummary(prev) /\ ~wrote /\ prevNow = now
    /\ dbConfigured /\ leads # EmptyBag

====
